---- MODULE Spec2Model ----
(***************************************************************************)
(* Model of the two notebooks of fluent-python-notes:                      *)
(*   - chapter 14: Sentence with its three iterator realizations           *)
(*     (SentenceIterator, generator function, generator expression over    *)
(*     re.finditer);                                                       *)
(*   - chapter 21: the DesNameMeta metaclass with the Field descriptor.    *)
(* Strings are sequences of one-character strings.  Python lists are       *)
(* sequences; a Python index k is the TLA+ index k + 1.                    *)
(***************************************************************************)
EXTENDS Integers, Sequences, FiniteSets, TLC

\* ---------------------------------------------------------------- bounds
MaxLen == 3        \* longest input string
MaxIters == 2      \* iterators obtained from one Sentence
MaxCalls == 3      \* next() calls on one iterator
MaxAttrs == 3      \* attributes in a class body
MaxSets == 2       \* attribute assignments on the instance

\* ------------------------------------------------------------ characters
\* r'\w' on the model's alphabet: letters and the underscore are word
\* characters, the hyphen and the space are not.
WordChars == {"a", "_"}
Alphabet == {"a", "_", "-", " "}

Strings == UNION {[1..n -> Alphabet] : n \in 0..MaxLen}

\* s[a:b] of Python (0-based, end exclusive).
Slice(s, a, b) == SubSeq(s, a + 1, b)

\* ----------------------------------------------------------- re: r'\w+'
\* Variant of MatchEnd for r'\w' (the + forgotten): one character per match.
MatchEndOneChar(s, p) == p + 1

\* The end of the greedy match of \w+ that starts at 0-based position p.
RECURSIVE MatchEnd(_, _)
MatchEnd(s, p) ==
    IF p < Len(s) /\ s[p + 1] \in WordChars THEN MatchEnd(s, p + 1) ELSE p

\* pattern.search(s, pos): the leftmost match at or after pos, or none.
RECURSIVE ScannerSearch(_, _)
ScannerSearch(s, pos) ==
    IF pos >= Len(s) THEN [found |-> FALSE, start |-> pos, end |-> pos]
    ELSE IF s[pos + 1] \in WordChars
         THEN [found |-> TRUE, start |-> pos, end |-> MatchEnd(s, pos)]
         ELSE ScannerSearch(s, pos + 1)

\* re.findall(r'\w+', s) from position pos on: the matched strings in order,
\* each search resuming where the previous match ended.
RECURSIVE FindAllFrom(_, _)
FindAllFrom(s, pos) ==
    LET m == ScannerSearch(s, pos)
    IN  IF m.found
        THEN <<Slice(s, m.start, m.end)>> \o FindAllFrom(s, m.end)
        ELSE <<>>

FindAll(s) == FindAllFrom(s, 0)

\* ------------------------------------------------------------ list access
\* list[k] of Python: negative k counts from the end, anything outside
\* -len..len-1 raises IndexError.
PyGetItem(list, k) ==
    IF 0 <= k /\ k < Len(list) THEN [ok |-> TRUE, val |-> list[k + 1]]
    ELSE IF k < 0 /\ -Len(list) <= k
         THEN [ok |-> TRUE, val |-> list[Len(list) + k + 1]]
         ELSE [ok |-> FALSE, val |-> <<>>]

\* Outcomes of a call: kind is "return" or the name of the exception raised.
Return(v) == [kind |-> "return", val |-> v]
Raise(e) == [kind |-> e, val |-> <<>>]

\* ------------------------------------------------------------------ state
VARIABLES
    sentence,      \* Sentence.sentence
    words,         \* Sentence.words (shared by reference with each iterator)
    iters,         \* the SentenceIterator objects, in creation order
    out,           \* per SentenceIterator, the outcomes of its next() calls
    lastCall,      \* the last call made and its outcome
    gens,          \* generator-function realization: the generator objects
    genexps,       \* generator-expression realization: the generator objects
    outGen,        \* outcomes of next() on each of gens
    outGenexp,     \* outcomes of next() on each of genexps
    dic,           \* class body handed to DesNameMeta.__init__, in order
    fieldName,     \* Field object -> its __name__ (NoName while unset)
    cls,           \* the class: defined flag and _field_names
    sc,            \* the instance: exists flag and _value_dict
    setLog,        \* the assignments sc.<attr> = <value> made, in order
    listed         \* list(sc) as last evaluated, valid until the next write

iterVars == <<sentence, words, iters, out, lastCall>>
equivVars == <<gens, genexps, outGen, outGenexp>>
metaVars == <<dic, fieldName, cls, sc, setLog, listed>>
vars == <<sentence, words, iters, out, lastCall, gens, genexps, outGen,
          outGenexp, dic, fieldName, cls, sc, setLog, listed>>

\* ------------------------------------------------- Sentence (first cell)
\* Sentence.__init__: keeps the string and the list of its words.
Sentence__init__(s) == [sentence |-> s, words |-> FindAll(s)]

\* SentenceIterator.__init__: a new object with a position of its own.
SentenceIterator__init__ == [_index |-> 0]

\* Variant of Sentence.__iter__ for a Sentence that is its own iterator:
\* every call hands back the one traversal object there is.
Sentence__iter__ReturnsSelf(ws, its) ==
    [words |-> ws,
     iters |-> IF its = <<>> THEN <<SentenceIterator__init__>> ELSE its,
     ref |-> 1]

\* Sentence.__iter__: allocates a new SentenceIterator; ws and its are the
\* word list and the iterators that exist, returned as the call leaves them.
Sentence__iter__(ws, its) ==
    [words |-> ws,
     iters |-> Append(its, SentenceIterator__init__),
     ref |-> Len(its) + 1]

\* Variants of SentenceIterator.__next__, each with one slip.
\* _index kept on the class: one position shared by all iterators.
NextSharedIndex(ws, its, i) ==
    LET r == PyGetItem(ws, its[i]._index)
    IN  IF ~r.ok
        THEN [words |-> ws, iters |-> its, res |-> Raise("StopIteration")]
        ELSE [words |-> ws,
              iters |-> [j \in DOMAIN its |-> [_index |-> its[i]._index + 1]],
              res |-> Return(r.val)]

\* the position rewound when the end is met
NextRewinds(ws, its, i) ==
    LET r == PyGetItem(ws, its[i]._index)
    IN  IF ~r.ok
        THEN [words |-> ws,
              iters |-> [its EXCEPT ![i]._index = 0],
              res |-> Raise("StopIteration")]
        ELSE [words |-> ws,
              iters |-> [its EXCEPT ![i]._index = @ + 1],
              res |-> Return(r.val)]

\* the position incremented before the read
NextIncrementsFirst(ws, its, i) ==
    LET r == PyGetItem(ws, its[i]._index + 1)
    IN  IF ~r.ok
        THEN [words |-> ws, iters |-> its, res |-> Raise("StopIteration")]
        ELSE [words |-> ws,
              iters |-> [its EXCEPT ![i]._index = @ + 1],
              res |-> Return(r.val)]

\* words.pop(0) instead of an indexed read
NextPops(ws, its, i) ==
    IF ws = <<>>
    THEN [words |-> ws, iters |-> its, res |-> Raise("StopIteration")]
    ELSE [words |-> Tail(ws),
          iters |-> [its EXCEPT ![i]._index = @ + 1],
          res |-> Return(Head(ws))]

\* no try/except around the read
NextUnguarded(ws, its, i) ==
    LET r == PyGetItem(ws, its[i]._index)
    IN  IF ~r.ok
        THEN [words |-> ws, iters |-> its, res |-> Raise("IndexError")]
        ELSE [words |-> ws,
              iters |-> [its EXCEPT ![i]._index = @ + 1],
              res |-> Return(r.val)]

\* the increment in a finally clause: it also runs when the read fails
NextIncrementsAlways(ws, its, i) ==
    LET r == PyGetItem(ws, its[i]._index)
    IN  [words |-> ws,
         iters |-> [its EXCEPT ![i]._index = @ + 1],
         res |-> IF r.ok THEN Return(r.val) ELSE Raise("StopIteration")]

\* SentenceIterator.__next__ on iterator i.
SentenceIterator__next__(ws, its, i) ==
    LET r == PyGetItem(ws, its[i]._index)
    IN  IF ~r.ok
        THEN [words |-> ws, iters |-> its, res |-> Raise("StopIteration")]
        ELSE [words |-> ws,
              iters |-> [its EXCEPT ![i]._index = @ + 1],
              res |-> Return(r.val)]

NoCall == [op |-> "none", it |-> 0, kind |-> "none", val |-> <<>>]
Call(op, i, res) == [op |-> op, it |-> i, kind |-> res.kind, val |-> res.val]

InitIter ==
    /\ \E s \in Strings :
          LET o == Sentence__init__(s)
          IN  sentence = o.sentence /\ words = o.words
    /\ iters = <<>>
    /\ out = <<>>
    /\ lastCall = NoCall

InitEquivIdle ==
    /\ gens = <<>>
    /\ genexps = <<>>
    /\ outGen = <<>>
    /\ outGenexp = <<>>

InitMetaIdle ==
    /\ dic = <<>>
    /\ fieldName = <<>>
    /\ cls = [defined |-> FALSE, _field_names |-> <<>>]
    /\ sc = [exists |-> FALSE, _value_dict |-> {}]
    /\ setLog = <<>>
    /\ listed = [valid |-> FALSE, vals |-> <<>>]

Init == InitIter /\ InitEquivIdle /\ InitMetaIdle

\* iter(sentence)
Iter ==
    /\ Len(iters) < MaxIters
    /\ LET r == Sentence__iter__(words, iters)
       IN  /\ words' = r.words
           /\ iters' = r.iters
           /\ out' = Append(out, <<>>)
           /\ lastCall' = Call("iter", r.ref, Return(<<>>))
    /\ UNCHANGED <<sentence, equivVars, metaVars>>

\* next(it) on the i-th iterator
Advance(i) ==
    /\ Len(out[i]) < MaxCalls
    /\ LET r == SentenceIterator__next__(words, iters, i)
       IN  /\ words' = r.words
           /\ iters' = r.iters
           /\ out' = [out EXCEPT ![i] = Append(@, r.res)]
           /\ lastCall' = Call("next", i, r.res)
    /\ UNCHANGED <<sentence, equivVars, metaVars>>

Next == Iter \/ \E i \in DOMAIN iters : Advance(i)

Spec == Init /\ [][Next]_vars

\* ------------------------------- Sentence with a generator function (cell 2)
\* Calling __iter__ only creates the generator object: no line of the body
\* has run, the for loop's list iterator does not exist yet.
SentenceGen__iter__(gs) ==
    [gens |-> Append(gs, [state |-> "created", it_index |-> 0]),
     ref |-> Len(gs) + 1]

\* next() on generator i: the body runs to its next yield or to its return.
\* The list iterator of `for word in self.words` starts at 0 when the body
\* starts; it yields ws[it_index] while it_index < len(ws).
Generator__next__(ws, gs, i) ==
    LET g == gs[i]
        idx == IF g.state = "created" THEN 0 ELSE g.it_index
    IN  IF g.state = "closed"
        THEN [gens |-> gs, res |-> Raise("StopIteration")]
        ELSE IF idx < Len(ws)
             THEN [gens |-> [gs EXCEPT ![i] = [state |-> "suspended",
                                               it_index |-> idx + 1]],
                   res |-> Return(ws[idx + 1])]
             ELSE [gens |-> [gs EXCEPT ![i] = [state |-> "closed",
                                               it_index |-> idx]],
                   res |-> Raise("StopIteration")]

\* --------------------------- Sentence with a generator expression (cell 3)
\* __iter__ evaluates self.re_word.finditer(self.sentence) at once (the
\* outermost iterable of a generator expression), so each generator has a
\* scanner of its own at position 0.
SentenceGenexp__iter__(gs) ==
    [genexps |-> Append(gs, [state |-> "created", pos |-> 0]),
     ref |-> Len(gs) + 1]

\* Variant of Genexp__next__ with one scanner made in __init__ and shared
\* by every generator.
GenexpNextSharedScanner(s, gs, i) ==
    LET m == ScannerSearch(s, gs[i].pos)
    IN  IF gs[i].state = "closed" \/ ~m.found
        THEN [genexps |-> [j \in DOMAIN gs |->
                              [state |-> "closed", pos |-> gs[j].pos]],
              res |-> Raise("StopIteration")]
        ELSE [genexps |-> [j \in DOMAIN gs |->
                              [state |-> "suspended", pos |-> m.end]],
              res |-> Return(Slice(s, m.start, m.end))]

\* next() on generator i: the scanner searches from where its last match
\* ended; match.group() is the matched substring.
Genexp__next__(s, gs, i) ==
    LET g == gs[i]
        m == ScannerSearch(s, g.pos)
    IN  IF g.state = "closed"
        THEN [genexps |-> gs, res |-> Raise("StopIteration")]
        ELSE IF m.found
             THEN [genexps |-> [gs EXCEPT ![i] = [state |-> "suspended",
                                                  pos |-> m.end]],
                   res |-> Return(Slice(s, m.start, m.end))]
             ELSE [genexps |-> [gs EXCEPT ![i] = [state |-> "closed",
                                                  pos |-> g.pos]],
                   res |-> Raise("StopIteration")]

\* The three cells' Sentence built from one string, then driven by the same
\* calls.  Sentence.__init__ of cell 2 is that of cell 1, so `words` stands
\* for both; cell 3 keeps the string only.
InitEquiv == InitIter /\ InitEquivIdle /\ InitMetaIdle

\* iter(sentence) on each realization
IterAll ==
    /\ Len(iters) < MaxIters
    /\ LET r1 == Sentence__iter__(words, iters)
           r2 == SentenceGen__iter__(gens)
           r3 == SentenceGenexp__iter__(genexps)
       IN  /\ words' = r1.words
           /\ iters' = r1.iters
           /\ gens' = r2.gens
           /\ genexps' = r3.genexps
           /\ out' = Append(out, <<>>)
           /\ outGen' = Append(outGen, <<>>)
           /\ outGenexp' = Append(outGenexp, <<>>)
           /\ lastCall' = Call("iter", r1.ref, Return(<<>>))
    /\ UNCHANGED <<sentence, metaVars>>

\* next() on the i-th iterator of each realization
AdvanceAll(i) ==
    /\ Len(out[i]) < MaxCalls
    /\ LET r1 == SentenceIterator__next__(words, iters, i)
           r2 == Generator__next__(words, gens, i)
           r3 == Genexp__next__(sentence, genexps, i)
       IN  /\ words' = r1.words
           /\ iters' = r1.iters
           /\ gens' = r2.gens
           /\ genexps' = r3.genexps
           /\ out' = [out EXCEPT ![i] = Append(@, r1.res)]
           /\ outGen' = [outGen EXCEPT ![i] = Append(@, r2.res)]
           /\ outGenexp' = [outGenexp EXCEPT ![i] = Append(@, r3.res)]
           /\ lastCall' = Call("next", i, r1.res)
    /\ UNCHANGED <<sentence, metaVars>>

NextEquiv == IterAll \/ \E i \in DOMAIN iters : AdvanceAll(i)

SpecEquiv == InitEquiv /\ [][NextEquiv]_vars

\* -------------------------------------------- DesNameMeta and Field (ch. 21)
\* A class body is the ordered mapping __prepare__ returns, filled by the
\* class statement: attribute names, each bound to a value.  A value is a
\* Field object (1..NFields names the object, so one object may be bound to
\* two names, as after `y = x`) or 0 for anything that is not a Field.
NFields == 2
FieldObjs == 1..NFields
AttrNames == {"name", "title", "a"}
AttrValues == {"Name", "Title"}
NoName == "<unset>"
None == "None"

IsField(v) == v \in FieldObjs

ClassBodies ==
    {d \in UNION {[1..n -> [name : AttrNames, val : {0} \cup FieldObjs]] :
                     n \in 0..MaxAttrs} :
        \A j, k \in DOMAIN d : j # k => d[j].name # d[k].name}

\* dict.get and dict[k] = v on a dict kept as a set of <<key, value>> pairs.
DictGet(d, k) ==
    IF \E p \in d : p[1] = k THEN (CHOOSE p \in d : p[1] = k)[2] ELSE None

DictSet(d, k, v) == {p \in d : p[1] # k} \cup {<<k, v>>}

\* Variant of the loop of DesNameMeta.__init__ with field_names.insert(0, name).
RECURSIVE MetaLoopInsertsFirst(_, _, _, _)
MetaLoopInsertsFirst(d, k, fn, names) ==
    IF k > Len(d) THEN [fieldName |-> fn, _field_names |-> names]
    ELSE IF IsField(d[k].val)
         THEN MetaLoopInsertsFirst(d, k + 1,
                                   [fn EXCEPT ![d[k].val] = d[k].name],
                                   <<d[k].name>> \o names)
         ELSE MetaLoopInsertsFirst(d, k + 1, fn, names)

\* The loop of DesNameMeta.__init__ from item k on: fn is the __name__ of
\* each Field object so far, names the field_names list so far.
RECURSIVE MetaLoop(_, _, _, _)
MetaLoop(d, k, fn, names) ==
    IF k > Len(d) THEN [fieldName |-> fn, _field_names |-> names]
    ELSE IF IsField(d[k].val)
         THEN MetaLoop(d, k + 1,
                       [fn EXCEPT ![d[k].val] = d[k].name],
                       Append(names, d[k].name))
         ELSE MetaLoop(d, k + 1, fn, names)

\* DesNameMeta.__init__(cls, name, bases, dic)
DesNameMeta__init__(d, fn) == MetaLoop(d, 1, fn, <<>>)

\* The class attribute called n.
ClassAttr(d, n) == (CHOOSE k \in DOMAIN d : d[k].name = n)

\* Field.__set__(self, instance, val)
Field__set__(f, fn, inst, v) ==
    [inst EXCEPT !._value_dict = DictSet(@, fn[f], v)]

\* Field.__get__(self, instance, cls) with an instance
Field__get__(f, fn, inst) == DictGet(inst._value_dict, fn[f])

\* list(sc): SomeClass.__iter__ yields getattr(self, field) for each name of
\* _field_names; the class attribute is a Field, so its __get__ answers.
SomeClass__iter__(d, fn, c, inst) ==
    [k \in DOMAIN c._field_names |->
        Field__get__(d[ClassAttr(d, c._field_names[k])].val, fn, inst)]

InitMeta ==
    /\ InitEquivIdle
    /\ sentence = <<>> /\ words = <<>> /\ iters = <<>> /\ out = <<>>
    /\ lastCall = NoCall
    /\ dic \in ClassBodies
    /\ fieldName = [f \in FieldObjs |-> NoName]
    /\ cls = [defined |-> FALSE, _field_names |-> <<>>]
    /\ sc = [exists |-> FALSE, _value_dict |-> {}]
    /\ setLog = <<>>
    /\ listed = [valid |-> FALSE, vals |-> <<>>]

\* the end of the class statement: type.__call__ runs DesNameMeta.__init__
DefineClass ==
    /\ ~cls.defined
    /\ LET r == DesNameMeta__init__(dic, fieldName)
       IN  /\ fieldName' = r.fieldName
           /\ cls' = [defined |-> TRUE, _field_names |-> r._field_names]
    /\ UNCHANGED <<iterVars, equivVars, dic, sc, setLog, listed>>

\* sc = SomeClass()
NewInstance ==
    /\ cls.defined /\ ~sc.exists
    /\ sc' = [exists |-> TRUE, _value_dict |-> {}]
    /\ UNCHANGED <<iterVars, equivVars, dic, fieldName, cls, setLog, listed>>

\* sc.<dic[k].name> = v, for an attribute that is a Field
SetAttr(k, v) ==
    /\ sc.exists
    /\ Len(setLog) < MaxSets
    /\ IsField(dic[k].val)
    /\ sc' = Field__set__(dic[k].val, fieldName, sc, v)
    /\ setLog' = Append(setLog, [attr |-> dic[k].name, val |-> v])
    /\ listed' = [valid |-> FALSE, vals |-> <<>>]
    /\ UNCHANGED <<iterVars, equivVars, dic, fieldName, cls>>

\* list(sc)
ListInstance ==
    /\ sc.exists /\ ~listed.valid
    /\ listed' = [valid |-> TRUE,
                  vals |-> SomeClass__iter__(dic, fieldName, cls, sc)]
    /\ UNCHANGED <<iterVars, equivVars, dic, fieldName, cls, sc, setLog>>

NextMeta ==
    \/ DefineClass
    \/ NewInstance
    \/ \E k \in DOMAIN dic : \E v \in AttrValues : SetAttr(k, v)
    \/ ListInstance

SpecMeta == InitMeta /\ [][NextMeta]_vars

\* ------------------------------------------------- claims on the iterator
Stop == Raise("StopIteration")

\* The tokens among a sequence of outcomes, in order.
Tokens(o) ==
    LET idx == {k \in DOMAIN o : o[k].kind = "return"}
        nth(n) == CHOOSE k \in idx : Cardinality({m \in idx : m < k}) = n - 1
    IN  [n \in 1..Cardinality(idx) |-> o[nth(n)].val]

\* A traversal is exhausted once one of its next() calls has ended it.
Exhausted(o) == \E k \in DOMAIN o : o[k].kind # "return"

\* What next() on iterator j would give now.
Peek(ws, its, j) == SentenceIterator__next__(ws, its, j).res

\* C1: a next() on one iterator changes that iterator's position only: every
\* other iterator keeps its position and its next result, no iterator appears
\* or disappears, and the word list is unchanged.
C1_AdvanceTouchesOwnCursorOnly ==
    [][lastCall'.op = "next" =>
          /\ words' = words
          /\ DOMAIN iters' = DOMAIN iters
          /\ \A j \in DOMAIN iters :
                j # lastCall'.it =>
                   /\ iters'[j] = iters[j]
                   /\ Peek(words', iters', j) = Peek(words, iters, j)]_vars

\* Two iterators at different positions, the first one advanced last.
C1_Witness ==
    /\ Len(iters) = 2
    /\ lastCall.op = "next" /\ lastCall.it = 1
    /\ iters[1]._index = 2 /\ iters[2]._index = 1

\* C2: every iter(sentence) returns an iterator that did not exist before,
\* at position zero, and changes neither the word list nor any existing
\* iterator, whatever their number and positions.
C2_IterReturnsFreshCursor ==
    [][lastCall'.op = "iter" =>
          /\ lastCall'.it \notin DOMAIN iters
          /\ lastCall'.it \in DOMAIN iters'
          /\ iters'[lastCall'.it]._index = 0
          /\ words' = words
          /\ \A j \in DOMAIN iters : iters'[j] = iters[j]]_vars

\* A second iterator obtained after the first one was exhausted.
C2_Witness ==
    /\ lastCall.op = "iter" /\ lastCall.it = 2
    /\ words # <<>>
    /\ Exhausted(out[1])
    /\ iters[2]._index = 0

\* C3: once a next() on an iterator has raised StopIteration, every later
\* next() on it raises StopIteration too.
C3_ExhaustedIsAbsorbing ==
    \A i \in DOMAIN out :
       \A k \in DOMAIN out[i] :
          out[i][k].kind = "StopIteration" =>
             \A m \in DOMAIN out[i] : m > k => out[i][m] = Stop

\* An iterator over a non-empty list called twice after its last token.
C3_Witness ==
    \E i \in DOMAIN out :
       /\ words # <<>>
       /\ Len(out[i]) = Len(words) + 2
       /\ out[i][Len(words) + 1] = Stop
       /\ out[i][Len(words) + 2] = Stop

\* C4: a next() at position i < len(words) returns words[i] and leaves the
\* iterator at position i + 1.
C4_AdvanceReturnsTokenAtPosition ==
    [][\A i \in DOMAIN iters :
          (lastCall'.op = "next" /\ lastCall'.it = i
              /\ iters[i]._index < Len(words)) =>
             /\ lastCall'.kind = "return"
             /\ lastCall'.val = words[iters[i]._index + 1]
             /\ out'[i] = Append(out[i], Return(words[iters[i]._index + 1]))
             /\ iters'[i]._index = iters[i]._index + 1]_vars

\* The second token has just been returned.
C4_Witness ==
    /\ lastCall.op = "next" /\ lastCall.kind = "return"
    /\ iters[lastCall.it]._index = 2
    /\ lastCall.val = words[2]
    /\ words[1] # words[2]

\* C5: under every interleaving each traversal produces the word list in
\* order and then StopIteration, after exactly len(words) successful calls;
\* so any two exhausted traversals produced the same tokens.
C5_TraversalsAgree ==
    /\ \A i \in DOMAIN out :
          \A k \in DOMAIN out[i] :
             out[i][k] = IF k <= Len(words) THEN Return(words[k]) ELSE Stop
    /\ \A i, j \in DOMAIN out :
          Exhausted(out[i]) /\ Exhausted(out[j]) =>
             /\ Tokens(out[i]) = Tokens(out[j])
             /\ Tokens(out[i]) = FindAll(sentence)

\* Two exhausted traversals of two words; the older iterator was advanced
\* after the younger one had finished.
C5_Witness ==
    /\ Len(out) = 2
    /\ Len(words) = 2
    /\ Exhausted(out[1]) /\ Exhausted(out[2])
    /\ lastCall.op = "next" /\ lastCall.it = 1 /\ lastCall.kind = "StopIteration"
    /\ Len(out[1]) = 3 /\ Len(out[2]) = 3

\* The maximal runs of word characters of s, as <<first, last>> (1-based).
IsRun(s, a, b) ==
    /\ a <= b
    /\ \A k \in a..b : s[k] \in WordChars
    /\ (a = 1 \/ s[a - 1] \notin WordChars)
    /\ (b = Len(s) \/ s[b + 1] \notin WordChars)

Runs(s) == {r \in (1..Len(s)) \X (1..Len(s)) : IsRun(s, r[1], r[2])}

\* The runs as strings, from left to right.
RunSeq(s) ==
    LET nth(n) == CHOOSE r \in Runs(s) :
                     Cardinality({q \in Runs(s) : q[1] < r[1]}) = n - 1
    IN  [n \in 1..Cardinality(Runs(s)) |-> SubSeq(s, nth(n)[1], nth(n)[2])]

IsPrefix(a, b) == Len(a) <= Len(b) /\ a = SubSeq(b, 1, Len(a))

\* C6: one traversal yields exactly the maximal runs of word characters of
\* the input, from left to right: as many tokens as runs, none empty, none
\* with a character that is not a word character.
C6_TokensAreMaximalWordRuns ==
    \A i \in DOMAIN out :
       /\ IsPrefix(Tokens(out[i]), RunSeq(sentence))
       /\ Exhausted(out[i]) =>
             /\ Tokens(out[i]) = RunSeq(sentence)
             /\ Len(Tokens(out[i])) = Cardinality(Runs(sentence))
       /\ \A k \in DOMAIN out[i] :
             out[i][k].kind = "return" =>
                /\ out[i][k].val # <<>>
                /\ \A c \in DOMAIN out[i][k].val : out[i][k].val[c] \in WordChars

\* A finished traversal of a string whose two words a hyphen separates.
C6_Witness ==
    \E i \in DOMAIN out :
       /\ Exhausted(out[i])
       /\ sentence = <<"a", "-", "_">>
       /\ Tokens(out[i]) = << <<"a">>, <<"_">> >>

\* C7: next() never lets IndexError out: at a position equal to the token
\* count it raises StopIteration; for a string with no word character every
\* next() raises StopIteration and no token is produced.
C7_OutOfBoundsIsEndOfSequence ==
    /\ \A i \in DOMAIN out :
          \A k \in DOMAIN out[i] : out[i][k].kind \in {"return", "StopIteration"}
    /\ (lastCall.op = "next" /\ lastCall.kind # "return") =>
          /\ lastCall.kind = "StopIteration"
          /\ iters[lastCall.it]._index = Len(words)
    /\ (\A c \in DOMAIN sentence : sentence[c] \notin WordChars) =>
          /\ words = <<>>
          /\ \A i \in DOMAIN out :
                \A k \in DOMAIN out[i] : out[i][k] = Stop

\* The empty string: the first next() of an iterator has raised StopIteration.
C7_Witness ==
    /\ sentence = <<>>
    /\ lastCall.op = "next" /\ lastCall.kind = "StopIteration"
    /\ Len(out[lastCall.it]) = 1

\* C10: 0 <= _index <= len(words) always; _index never decreases; a next()
\* raises StopIteration exactly when _index = len(words), and leaves _index
\* there.
C10_IndexBoundedMonotone ==
    /\ [](\A i \in DOMAIN iters :
             0 <= iters[i]._index /\ iters[i]._index <= Len(words))
    /\ [][\A i \in DOMAIN iters :
             /\ iters'[i]._index >= iters[i]._index
             /\ (lastCall'.op = "next" /\ lastCall'.it = i) =>
                   /\ lastCall'.kind = "StopIteration"
                         <=> iters[i]._index = Len(words)
                   /\ lastCall'.kind = "StopIteration"
                         => iters'[i]._index = iters[i]._index]_vars

\* An iterator over two words that has raised StopIteration and stays at 2.
C10_Witness ==
    /\ lastCall.op = "next" /\ lastCall.kind = "StopIteration"
    /\ Len(words) = 2
    /\ iters[lastCall.it]._index = 2
    /\ Len(out[lastCall.it]) = 3

\* ------------------------------------------ claim on the three realizations
\* C8: for every input string and every sequence of iter() and next() calls
\* the three realizations give the same outcomes: the same tokens and the
\* same StopIteration, each iterator from a position of its own.
C8_RealizationsEquivalent ==
    /\ outGen = out
    /\ outGenexp = out
    /\ Len(gens) = Len(iters) /\ Len(genexps) = Len(iters)

\* Two traversals of two words in each realization, the second begun and
\* advanced once the first was exhausted.
C8_Witness ==
    /\ Len(out) = 2
    /\ Len(words) = 2 /\ words[1] # words[2]
    /\ Len(outGen[1]) = 3 /\ outGen[1][3] = Stop
    /\ Len(outGenexp[2]) = 1 /\ outGenexp[2][1] = Return(words[1])
    /\ gens[1].state = "closed" /\ genexps[2].state = "suspended"

\* ------------------------------------------------------ claim on DesNameMeta
\* The names of the Field attributes of a class body, in declaration order.
FieldAttrs(d) == {k \in DOMAIN d : IsField(d[k].val)}

DeclaredFieldNames(d) ==
    LET nth(n) == CHOOSE k \in FieldAttrs(d) :
                     Cardinality({j \in FieldAttrs(d) : j < k}) = n - 1
    IN  [n \in 1..Cardinality(FieldAttrs(d)) |-> d[nth(n)].name]

\* The value last assigned through one of the attributes in `attrs`.
LastSetVia(attrs) ==
    LET hits == {e \in DOMAIN setLog : setLog[e].attr \in attrs}
    IN  IF hits = {} THEN None
        ELSE setLog[CHOOSE e \in hits : \A h \in hits : h <= e].val

\* The attributes bound to the Field object that attribute n is bound to.
Aliases(d, n) ==
    {d[k].name : k \in {j \in DOMAIN d : d[j].val = d[ClassAttr(d, n)].val}}

\* C9 as stated: once the class is defined, _field_names is the list of the
\* names of its Field attributes in declaration order, each Field's __name__
\* is its attribute's name, and list(sc) is, field by field in that order,
\* the value set through that attribute.
C9_AsStated ==
    cls.defined =>
       /\ cls._field_names = DeclaredFieldNames(dic)
       /\ \A k \in FieldAttrs(dic) : fieldName[dic[k].val] = dic[k].name
       /\ listed.valid =>
             listed.vals = [n \in DOMAIN cls._field_names |->
                               LastSetVia({cls._field_names[n]})]

\* C9 amended: once the class is defined, _field_names is the list of the
\* names of the Field attributes of the class body in declaration order; the
\* __name__ of each Field object is the name of the last attribute bound to
\* it (its one attribute when it is bound once); and list(sc) is, field by
\* field in that order, the value last set through any attribute bound to
\* the same Field object.
C9_FieldNamesInDeclarationOrder ==
    cls.defined =>
       /\ cls._field_names = DeclaredFieldNames(dic)
       /\ \A k \in FieldAttrs(dic) :
             LET same == {j \in FieldAttrs(dic) : dic[j].val = dic[k].val}
             IN  /\ fieldName[dic[k].val] =
                       dic[CHOOSE j \in same : \A h \in same : h <= j].name
                 /\ same = {k} => fieldName[dic[k].val] = dic[k].name
       /\ listed.valid =>
             listed.vals = [n \in DOMAIN cls._field_names |->
                               LastSetVia(Aliases(dic, cls._field_names[n]))]

\* A class with two Field attributes around one that is no Field, declared
\* out of alphabetical order; both fields set, later-declared first, and
\* the instance listed.
C9_Witness ==
    /\ cls.defined
    /\ dic = <<[name |-> "title", val |-> 1], [name |-> "a", val |-> 0],
               [name |-> "name", val |-> 2]>>
    /\ setLog = <<[attr |-> "name", val |-> "Name"],
                  [attr |-> "title", val |-> "Title"]>>
    /\ listed = [valid |-> TRUE, vals |-> <<"Title", "Name">>]

====
